---------------------------- MODULE Spec2Model ----------------------------
(***************************************************************************)
(* MPRAGEise.py: the pipeline of main() over a file system shared by the   *)
(* runs, with the AFNI delegates as nondeterministic collaborators.        *)
(*                                                                         *)
(* A Python string is a sequence of one-character strings, so that the     *)
(* substring tests, slices, splits and joins of the source are computed    *)
(* character by character.  A literal argv token that the program never    *)
(* inspects ("3dcalc", "-prefix", ...) is the one-element sequence holding *)
(* that token.                                                             *)
(***************************************************************************)
EXTENDS Integers, Sequences, FiniteSets, TLC

(***************************************************************************)
(* Bounds of the model.                                                    *)
(***************************************************************************)
\* largest voxel intensity of an input image
MaxVal == 1
\* largest voxel intensity 3dUnifize can give a voxel
MaxUnifized == 2

(***************************************************************************)
(* String constants of the source.                                         *)
(***************************************************************************)
NII == <<".", "n", "i", "i">>
NIIGZ == <<".", "n", "i", "i", ".", "g", "z">>
ORIG == <<"+", "o", "r", "i", "g">>
BFC == <<"_", "b", "f", "c">>
INTNORM == <<"_", "i", "n", "t", "n", "o", "r", "m">>
UNBIASED_CLEAN == <<"_", "u", "n", "b", "i", "a", "s", "e", "d", "_", "c", "l", "e", "a", "n">>
REBIASED_CLEAN == <<"_", "r", "e", "b", "i", "a", "s", "e", "d", "_", "c", "l", "e", "a", "n">>
BRIK == <<".", "B", "R", "I", "K">>
BRIKGZ == <<".", "B", "R", "I", "K", ".", "g", "z">>
HEAD == <<".", "H", "E", "A", "D">>
\* cleanup_temp_files: the six suffixes, in the order of the source
extensions == << <<>>, NII, NIIGZ, BRIK, BRIKGZ, HEAD >>
\* str.strip() strips these
Whitespace == {" ", "\n", "\t"}
\* the process's working directory, which os.path.abspath joins to
Cwd == <<"/", "w">>

(***************************************************************************)
(* Python's string operations.                                             *)
(***************************************************************************)
\* sub in s
Contains(s, sub) ==
    \E i \in 0..(Len(s) - Len(sub)) : SubSeq(s, i + 1, i + Len(sub)) = sub

\* s.endswith(suf)
EndsWith(s, suf) ==
    /\ Len(s) >= Len(suf)
    /\ SubSeq(s, Len(s) - Len(suf) + 1, Len(s)) = suf

\* s.startswith(pre)
StartsWith(s, pre) ==
    /\ Len(s) >= Len(pre)
    /\ SubSeq(s, 1, Len(pre)) = pre

\* s[:-n], n > 0: the empty string when s has at most n characters
DropLast(s, n) == IF Len(s) > n THEN SubSeq(s, 1, Len(s) - n) ELSE <<>>

\* s.rfind(c) + 1: the position after the last c, 0 + 1 - 1 = 0 when absent
RFindPlus1(s, c) ==
    IF \E i \in 1..Len(s) : s[i] = c
    THEN CHOOSE i \in 1..Len(s) : s[i] = c /\ \A j \in (i + 1)..Len(s) : s[j] # c
    ELSE 0

RECURSIVE LStrip(_)
LStrip(s) == IF s # <<>> /\ Head(s) \in Whitespace THEN LStrip(Tail(s)) ELSE s

RECURSIVE RStrip(_)
RStrip(s) ==
    IF s # <<>> /\ s[Len(s)] \in Whitespace THEN RStrip(SubSeq(s, 1, Len(s) - 1)) ELSE s

\* s.strip()
Strip(s) == RStrip(LStrip(s))

\* s.split(c)
RECURSIVE Split(_, _)
Split(s, c) ==
    IF \A i \in 1..Len(s) : s[i] # c
    THEN <<s>>
    ELSE LET i == CHOOSE k \in 1..Len(s) : s[k] = c /\ \A j \in 1..(k - 1) : s[j] # c
         IN  <<SubSeq(s, 1, i - 1)>> \o Split(SubSeq(s, i + 1, Len(s)), c)

\* c.join(parts)
RECURSIVE Join(_, _)
Join(parts, c) ==
    IF parts = <<>> THEN <<>>
    ELSE IF Len(parts) = 1 THEN parts[1]
    ELSE parts[1] \o <<c>> \o Join(Tail(parts), c)

\* s.rstrip("/")
RECURSIVE RStripSlash(_)
RStripSlash(s) ==
    IF s # <<>> /\ s[Len(s)] = "/" THEN RStripSlash(SubSeq(s, 1, Len(s) - 1)) ELSE s

(***************************************************************************)
(* posixpath.                                                              *)
(***************************************************************************)
\* os.path.basename(p): p[p.rfind('/') + 1:]
os_path_basename(p) == SubSeq(p, RFindPlus1(p, "/") + 1, Len(p))

\* os.path.dirname(p): the head up to the last '/', its trailing slashes
\* stripped unless it is all slashes
os_path_dirname(p) ==
    LET head == SubSeq(p, 1, RFindPlus1(p, "/"))
    IN  IF head # <<>> /\ \E i \in 1..Len(head) : head[i] # "/"
        THEN RStripSlash(head)
        ELSE head

\* os.path.join(a, b)
os_path_join(a, b) ==
    IF StartsWith(b, <<"/">>) THEN b
    ELSE IF a = <<>> \/ EndsWith(a, <<"/">>) THEN a \o b
    ELSE a \o <<"/">> \o b

\* the loop of os.path.normpath over the components
RECURSIVE NormComps(_, _, _)
NormComps(comps, acc, initial_slashes) ==
    IF comps = <<>> THEN acc
    ELSE LET comp == Head(comps)
             dotdot == <<".", ".">>
         IN  IF comp = <<>> \/ comp = <<".">>
             THEN NormComps(Tail(comps), acc, initial_slashes)
             ELSE IF \/ comp # dotdot
                     \/ (initial_slashes = 0 /\ acc = <<>>)
                     \/ (acc # <<>> /\ acc[Len(acc)] = dotdot)
             THEN NormComps(Tail(comps), Append(acc, comp), initial_slashes)
             ELSE IF acc # <<>>
             THEN NormComps(Tail(comps), SubSeq(acc, 1, Len(acc) - 1), initial_slashes)
             ELSE NormComps(Tail(comps), acc, initial_slashes)

\* os.path.normpath(p)
os_path_normpath(p) ==
    IF p = <<>> THEN <<".">>
    ELSE LET initial_slashes ==
                 IF ~StartsWith(p, <<"/">>) THEN 0
                 ELSE IF StartsWith(p, <<"/", "/">>) /\ ~StartsWith(p, <<"/", "/", "/">>)
                 THEN 2 ELSE 1
             body == Join(NormComps(Split(p, "/"), <<>>, initial_slashes), "/")
             path == [i \in 1..initial_slashes |-> "/"] \o body
         IN  IF path = <<>> THEN <<".">> ELSE path

\* os.path.abspath(p)
os_path_abspath(p) ==
    os_path_normpath(IF StartsWith(p, <<"/">>) THEN p ELSE os_path_join(Cwd, p))


(***************************************************************************)
(* Numbers as the delegates print and read them.                           *)
(***************************************************************************)
Digit == <<"0", "1", "2", "3", "4", "5", "6", "7", "8", "9">>

\* the decimal text of n >= 0, as 3dinfo prints an integer extremum
RECURSIVE ToStr(_)
ToStr(n) == IF n < 10 THEN <<Digit[n + 1]>> ELSE ToStr(n \div 10) \o <<Digit[(n % 10) + 1]>>

\* the number 3dcalc reads from decimal text
RECURSIVE ToInt(_)
ToInt(s) ==
    IF s = <<>> THEN 0
    ELSE 10 * ToInt(SubSeq(s, 1, Len(s) - 1))
           + ((CHOOSE d \in 1..10 : Digit[d] = s[Len(s)]) - 1)

(***************************************************************************)
(* Images.  A voxel is a fraction <<numerator, denominator>>; an input     *)
(* image holds integers (denominator 1); denominator 0 is the undefined    *)
(* result of a division by zero.                                           *)
(***************************************************************************)
Voxels == {1, 2}
\* the INV2 images of the initial states: voxels in ascending order, so that
\* every pair of extrema occurs once
Inv2Images == {img \in [Voxels -> {<<n, 1>> : n \in 0..MaxVal}] : img[1][1] <= img[2][1]}
\* the images 3dUnifize can write
UnifizedImages == [Voxels -> {<<n, 1>> : n \in 0..MaxUnifized}]
UniImage == [v \in Voxels |-> <<v, 1>>]

Max(S) == CHOOSE x \in S : \A y \in S : y <= x
Min(S) == CHOOSE x \in S : \A y \in S : x <= y

\* the files that hold the dataset named p: a .HEAD/.BRIK pair for a
\* prefix+view name, the file itself otherwise (see extensions)
DatasetFiles(p) == IF EndsWith(p, ORIG) THEN {p \o HEAD, p \o BRIK} ELSE {p}

\* the file of the dataset that holds the voxels
DataFile(p) == IF EndsWith(p, ORIG) THEN p \o BRIK ELSE p


(***************************************************************************)
(* glob.glob, as cleanup_temp_files uses it: the pattern is matched        *)
(* component by component; a component with no magic character is taken    *)
(* literally, one with magic is matched by fnmatch and never matches a     *)
(* hidden name unless it starts with a dot itself.  Character classes are  *)
(* sets of characters ("-" ranges are not written in the paths below).     *)
(***************************************************************************)
\* glob.has_magic
HasMagic(s) == \E i \in 1..Len(s) : s[i] \in {"*", "?", "["}

\* fnmatch.translate: the position in rest (the text after a "[") of the
\* "]" that closes the class, 0 when there is none and the "[" is literal
ClassEnd(rest) ==
    LET j1 == IF Len(rest) >= 1 /\ rest[1] = "!" THEN 2 ELSE 1
        j2 == IF Len(rest) >= j1 /\ rest[j1] = "]" THEN j1 + 1 ELSE j1
    IN  IF \E k \in j2..Len(rest) : rest[k] = "]"
        THEN CHOOSE k \in j2..Len(rest) :
                 rest[k] = "]" /\ \A j \in j2..(k - 1) : rest[j] # "]"
        ELSE 0

\* fnmatch.fnmatchcase(name, pat)
RECURSIVE FnMatch(_, _)
FnMatch(pat, name) ==
    IF pat = <<>> THEN name = <<>>
    ELSE IF Head(pat) = "*"
    THEN FnMatch(Tail(pat), name) \/ (name # <<>> /\ FnMatch(pat, Tail(name)))
    ELSE IF Head(pat) = "?"
    THEN name # <<>> /\ FnMatch(Tail(pat), Tail(name))
    ELSE IF Head(pat) = "[" /\ ClassEnd(Tail(pat)) # 0
    THEN LET rest == Tail(pat)
             k == ClassEnd(rest)
             negate == rest[1] = "!"
             stuff == SubSeq(rest, IF negate THEN 2 ELSE 1, k - 1)
             chars == {stuff[i] : i \in 1..Len(stuff)}
         IN  /\ name # <<>>
             /\ (Head(name) \in chars) # negate
             /\ FnMatch(SubSeq(rest, k + 1, Len(rest)), Tail(name))
    ELSE name # <<>> /\ Head(name) = Head(pat) /\ FnMatch(Tail(pat), Tail(name))

\* one path of the file system against a glob pattern
GlobMatch(pattern, path) ==
    IF ~HasMagic(pattern) THEN path = pattern
    ELSE LET pc == Split(pattern, "/")
             fc == Split(path, "/")
         IN  /\ Len(pc) = Len(fc)
             /\ \A i \in 1..Len(pc) :
                  IF HasMagic(pc[i])
                  THEN /\ FnMatch(pc[i], fc[i])
                       /\ (StartsWith(fc[i], <<".">>) => StartsWith(pc[i], <<".">>))
                  ELSE pc[i] = fc[i]

\* glob.glob(pattern) over the files that exist
glob(pattern, files) == {f \in files : GlobMatch(pattern, f)}

(***************************************************************************)
(* get_basename_and_extension.  afni is what subprocess.run of             *)
(* @GetAfniPrefix did: raised (the tool is absent), or its return code and *)
(* standard output.                                                        *)
(***************************************************************************)
\* filename.split('+')[0]
SplitPlusFirst(filename) == Split(filename, "+")[1]

\* the outcomes of running @GetAfniPrefix on filename: absent, failing, or
\* printing the prefix (the name without directory and view) and a newline
AfniPrefixOutcomes(filename) ==
    { [raised |-> TRUE, returncode |-> 1, stdout |-> <<>>],
      [raised |-> FALSE, returncode |-> 1, stdout |-> <<>>],
      [raised |-> FALSE, returncode |-> 0,
       stdout |-> os_path_basename(SplitPlusFirst(filename)) \o <<"\n">>] }

get_basename_and_extension(filename, afni) ==
    IF Contains(filename, NII)
    THEN IF EndsWith(filename, NIIGZ)
         THEN <<DropLast(os_path_basename(filename), 7), NIIGZ>>
         ELSE <<DropLast(os_path_basename(filename), 4), NII>>
    ELSE IF Contains(filename, <<"+">>)
    THEN << IF ~afni.raised /\ afni.returncode = 0
            THEN Strip(afni.stdout)
            ELSE SplitPlusFirst(filename),
            ORIG >>
    ELSE <<os_path_basename(filename), <<>> >>


(***************************************************************************)
(* The state.                                                              *)
(*   main[p]  the local variables of main() in process p, its position pc, *)
(*            its exit status (-1 while it runs), and the history of what  *)
(*            it did: the delegate commands it ran (cmds), the files its   *)
(*            delegates wrote (written), the prefixes it cleaned (cleaned) *)
(*            and the removals that failed (warnings)                      *)
(*   fs       the regular files that exist, each with the image it holds   *)
(*   dirs     what each directory path is: "absent", a writable or         *)
(*            read-only directory, or a writable regular file              *)
(***************************************************************************)
VARIABLES main, fs, dirs

vars == <<main, fs, dirs>>

\* a local variable of main() that is not assigned yet
None == <<"None">>

L(token) == <<token>>

\* os.access(path, os.W_OK)
os_access_W_OK(kind) == kind \in {"dir_rw", "file_rw"}

\* os.path.exists(path)
os_path_exists(kind) == kind # "absent"

DirKind(d) == IF d \in DOMAIN dirs THEN dirs[d] ELSE "absent"

(***************************************************************************)
(* The delegate commands, as main() builds them.                           *)
(***************************************************************************)
\* line 147
OverwriteFlag(overwrite) == IF overwrite THEN <<L("-overwrite")>> ELSE <<>>

\* line 173-176
OutputFolder(output, inv2_image) ==
    IF output = None THEN os_path_dirname(os_path_abspath(inv2_image)) ELSE output

\* the bias-mode test with its sense inverted
ReBias_inverted(re_bias_flag) == re_bias_flag = <<"0">>

\* line 192-197
ReBias(re_bias_flag) == re_bias_flag # <<"0">>

\* a bias-stage name that also carries the UNI basename
BfcPrefix_with_uni(m) ==
    os_path_join(m.output_folder, m.inv2_basename \o m.uni_basename \o BFC \o m.file_ext)

\* line 201 and 205
BfcPrefix(m) == os_path_join(m.output_folder, m.inv2_basename \o BFC \o m.file_ext)

\* line 203 and 207
OutName(m) ==
    os_path_join(m.output_folder,
                 m.uni_basename
                   \o (IF m.re_bias THEN REBIASED_CLEAN ELSE UNBIASED_CLEAN)
                   \o m.file_ext)

\* line 212
IntnormPrefix(m) == os_path_join(m.output_folder, m.inv2_basename \o INTNORM \o m.file_ext)

\* line 213: f"( a - {int_min} ) / ( {int_max} - {int_min} )"
Expr(int_min, int_max) ==
    <<"(", " ", "a", " ", "-", " ">> \o int_min \o <<" ", ")", " ", "/", " ", "(", " ">>
      \o int_max \o <<" ", "-", " ">> \o int_min \o <<" ", ")">>

\* line 202 and 206
BiasCmd(m, bfc_prefix) ==
    IF ~m.re_bias
    THEN <<L("3dUnifize"), L("-quiet")>> \o m.overwrite_flag
           \o <<L("-prefix"), bfc_prefix, m.inv2_image>>
    ELSE <<L("3dcopy"), m.inv2_image, bfc_prefix>>

\* line 210
DmaxusCmd(m) == <<L("3dinfo"), L("-dmaxus"), m.inv2_image>>

\* line 211
DminusCmd(m) == <<L("3dinfo"), L("-dminus"), m.inv2_image>>

\* a normalization that reads the INV2 input instead of the bias-stage artifact
IntnormCmd_reads_inv2(m, intnorm_prefix, expr) ==
    <<L("3dcalc")>> \o m.overwrite_flag
      \o <<L("-a"), m.inv2_image, L("-expr"), expr, L("-prefix"), intnorm_prefix>>

\* line 214-215
IntnormCmd(m, intnorm_prefix, expr) ==
    <<L("3dcalc")>> \o m.overwrite_flag
      \o <<L("-a"), m.bfc_prefix, L("-expr"), expr, L("-prefix"), intnorm_prefix>>

\* line 217-218
CompositeCmd(m) ==
    <<L("3dcalc")>> \o m.overwrite_flag
      \o <<L("-a"), m.uni_image, L("-b"), m.intnorm_prefix,
           L("-expr"), <<"a", " ", "*", " ", "b">>, L("-prefix"), m.out_name>>

(***************************************************************************)
(* The delegates, as far as the pipeline relies on them: each reads its    *)
(* operands and its output name from its argv.                             *)
(***************************************************************************)
HasOpt(cmd, opt) == \E i \in 1..Len(cmd) : cmd[i] = L(opt)

ArgAfter(cmd, opt) == cmd[(CHOOSE i \in 1..Len(cmd) : cmd[i] = L(opt)) + 1]

\* the dataset a command writes, None for 3dinfo
CmdOutput(cmd) ==
    IF cmd[1] = L("3dcopy") THEN cmd[3]
    ELSE IF HasOpt(cmd, "-prefix") THEN ArgAfter(cmd, "-prefix")
    ELSE None

\* the datasets a command reads
CmdInputs(cmd) ==
    IF cmd[1] = L("3dcopy") THEN {cmd[2]}
    ELSE IF cmd[1] = L("3dcalc")
    THEN {ArgAfter(cmd, "-a")} \cup (IF HasOpt(cmd, "-b") THEN {ArgAfter(cmd, "-b")} ELSE {})
    ELSE {cmd[Len(cmd)]}

DatasetExists(p) == DatasetFiles(p) \subseteq DOMAIN fs

\* a delegate can exit 0 only when its operands exist and, if it writes,
\* the directory of its output is a writable directory and the output does
\* not exist yet or -overwrite is given
CanSucceed(cmd) ==
    /\ \A i \in CmdInputs(cmd) : DatasetExists(i)
    /\ CmdOutput(cmd) # None =>
         /\ DirKind(os_path_dirname(CmdOutput(cmd))) = "dir_rw"
         /\ HasOpt(cmd, "-overwrite") \/ DatasetFiles(CmdOutput(cmd)) \cap DOMAIN fs = {}

\* the image of dataset p
ReadImage(p) == fs[DataFile(p)]

\* the file system after a delegate wrote img as dataset p
WriteDataset(p, img) ==
    [f \in DOMAIN fs \cup DatasetFiles(p) |-> IF f \in DatasetFiles(p) THEN img ELSE fs[f]]

\* 3dinfo -dmaxus / -dminus: the extremum of the (integer) voxels and a newline
InfoStdout(cmd) ==
    LET vals == {ReadImage(cmd[3])[v][1] : v \in Voxels}
    IN  ToStr(IF cmd[2] = L("-dmaxus") THEN Max(vals) ELSE Min(vals)) \o <<"\n">>

\* 3dcalc -expr: the two expressions of the pipeline, evaluated on one voxel
\* of operand a (and b); a division by zero gives denominator 0
CalcVoxel(expr, a, b) ==
    LET tok == Split(expr, " ")
    IN  IF tok = << <<"a">>, <<"*">>, <<"b">> >>
        THEN <<a[1] * b[1], a[2] * b[2]>>
        ELSE LET lo == ToInt(tok[4])
                 hi == ToInt(tok[8])
                 lo2 == ToInt(tok[10])
             IN  <<a[1] - lo * a[2], a[2] * (hi - lo2)>>

\* the image 3dcalc writes
CalcImage(cmd) ==
    LET a == ReadImage(ArgAfter(cmd, "-a"))
        b == IF HasOpt(cmd, "-b") THEN ReadImage(ArgAfter(cmd, "-b")) ELSE a
    IN  [v \in Voxels |-> CalcVoxel(ArgAfter(cmd, "-expr"), a[v], b[v])]

\* a run_command that goes on after a non-zero return code
run_command_ignoring_rc(m, site, cmd, rc, next) ==
    [m EXCEPT !.cmds = Append(@, [site |-> site, argv |-> cmd, rc |-> rc]),
              !.pc = next]

(***************************************************************************)
(* run_command: log the invocation; a non-zero return code exits the       *)
(* process with status 1, otherwise main() goes on at next.                *)
(***************************************************************************)
run_command(m, site, cmd, rc, next) ==
    IF rc # 0
    THEN [m EXCEPT !.cmds = Append(@, [site |-> site, argv |-> cmd, rc |-> rc]),
                   !.pc = "exited", !.exit = 1]
    ELSE [m EXCEPT !.cmds = Append(@, [site |-> site, argv |-> cmd, rc |-> rc]),
                   !.pc = next,
                   !.written = @ \cup (IF CmdOutput(cmd) = None THEN {}
                                       ELSE DatasetFiles(CmdOutput(cmd)))]

\* cleanup_temp_files: the files its six globs match
CleanupMatches(prefix) ==
    UNION {glob(prefix \o extensions[i], DOMAIN fs) : i \in 1..Len(extensions)}


(***************************************************************************)
(* The steps of main(), one per blocking call.                             *)
(***************************************************************************)
\* sys.exit(message): status 1
SysExit(m) == [m EXCEPT !.pc = "exited", !.exit = 1]

\* line 171-185: determine the output folder and ensure it exists
EnsureOutputFolder(p) ==
    LET m == main[p]
        output_folder == OutputFolder(m.args.output, m.inv2_image)
        kind == DirKind(output_folder)
    IN  /\ m.pc = "start"
        /\ \E made \in {"fail", "dir_rw", "dir_ro"} :
             LET now == IF os_path_exists(kind) THEN kind ELSE made
                 m1 == [m EXCEPT !.output_folder = output_folder]
             IN  /\ os_path_exists(kind) => made = "fail"
                 /\ dirs' = IF ~os_path_exists(kind) /\ made # "fail"
                            THEN [dirs EXCEPT ![output_folder] = made]
                            ELSE dirs
                 /\ main' = [main EXCEPT ![p] =
                        IF ~os_path_exists(kind) /\ made = "fail" THEN SysExit(m1)
                        ELSE IF ~os_access_W_OK(now) THEN SysExit(m1)
                        ELSE [m1 EXCEPT !.pc = "resolve"]]
        /\ UNCHANGED fs

\* line 187-197: basenames, extension and the bias mode
Resolve(p) ==
    LET m == main[p]
    IN  /\ m.pc = "resolve"
        /\ \E a1 \in AfniPrefixOutcomes(m.inv2_image),
              a2 \in AfniPrefixOutcomes(m.uni_image) :
             LET r1 == get_basename_and_extension(m.inv2_image, a1)
                 r2 == get_basename_and_extension(m.uni_image, a2)
             IN  main' = [main EXCEPT ![p] =
                     [m EXCEPT !.inv2_basename = r1[1], !.file_ext = r1[2],
                               !.uni_basename = r2[1],
                               !.re_bias = ReBias(m.re_bias_flag),
                               !.pc = "bias"]]
        /\ UNCHANGED <<fs, dirs>>

\* line 199-207: 3dUnifize writes some bias-corrected image, 3dcopy a copy
BiasStage(p) ==
    LET m == main[p]
        bfc_prefix == BfcPrefix(m)
        cmd == BiasCmd(m, bfc_prefix)
    IN  /\ m.pc = "bias"
        /\ \E rc \in {0, 1}, unifized \in UnifizedImages :
             LET m1 == run_command([m EXCEPT !.bfc_prefix = bfc_prefix],
                                   "bias", cmd, rc, "dmaxus")
                 img == IF cmd[1] = L("3dcopy") THEN ReadImage(cmd[2]) ELSE unifized
             IN  /\ rc = 0 => CanSucceed(cmd)
                 /\ fs' = IF rc = 0 THEN WriteDataset(CmdOutput(cmd), img) ELSE fs
                 /\ main' = [main EXCEPT ![p] =
                        IF m1.pc = "exited" THEN m1
                        ELSE [m1 EXCEPT !.out_name = OutName(m)]]
        /\ UNCHANGED dirs

\* line 210
QueryMax(p) ==
    LET m == main[p]
        cmd == DmaxusCmd(m)
    IN  /\ m.pc = "dmaxus"
        /\ \E rc \in {0, 1} :
             LET m1 == run_command(m, "dmaxus", cmd, rc, "dminus")
             IN  /\ rc = 0 => CanSucceed(cmd)
                 /\ main' = [main EXCEPT ![p] =
                        IF m1.pc = "exited" THEN m1
                        ELSE [m1 EXCEPT !.int_max = Strip(InfoStdout(cmd))]]
        /\ UNCHANGED <<fs, dirs>>

\* line 211
QueryMin(p) ==
    LET m == main[p]
        cmd == DminusCmd(m)
    IN  /\ m.pc = "dminus"
        /\ \E rc \in {0, 1} :
             LET m1 == run_command(m, "dminus", cmd, rc, "intnorm")
             IN  /\ rc = 0 => CanSucceed(cmd)
                 /\ main' = [main EXCEPT ![p] =
                        IF m1.pc = "exited" THEN m1
                        ELSE [m1 EXCEPT !.int_min = Strip(InfoStdout(cmd))]]
        /\ UNCHANGED <<fs, dirs>>

\* line 212-215
Normalize(p) ==
    LET m == main[p]
        intnorm_prefix == IntnormPrefix(m)
        expr == Expr(m.int_min, m.int_max)
        cmd == IntnormCmd(m, intnorm_prefix, expr)
    IN  /\ m.pc = "intnorm"
        /\ \E rc \in {0, 1} :
             /\ rc = 0 => CanSucceed(cmd)
             /\ fs' = IF rc = 0 THEN WriteDataset(CmdOutput(cmd), CalcImage(cmd)) ELSE fs
             /\ main' = [main EXCEPT ![p] =
                    run_command([m EXCEPT !.intnorm_prefix = intnorm_prefix, !.expr = expr],
                                "intnorm", cmd, rc, "composite")]
        /\ UNCHANGED dirs

\* line 216-218
Composite(p) ==
    LET m == main[p]
        cmd == CompositeCmd(m)
    IN  /\ m.pc = "composite"
        /\ \E rc \in {0, 1} :
             /\ rc = 0 => CanSucceed(cmd)
             /\ fs' = IF rc = 0 THEN WriteDataset(CmdOutput(cmd), CalcImage(cmd)) ELSE fs
             /\ main' = [main EXCEPT ![p] =
                    run_command(m, "composite", cmd, rc, "cleanup_bfc")]
        /\ UNCHANGED dirs

\* cleanup_temp_files(prefix): every matched file is removed, unless its
\* os.remove raises, which is caught and reported
cleanup_temp_files(p, prefix, next) ==
    LET m == main[p]
        matched == CleanupMatches(prefix)
    IN  \E failed \in SUBSET matched :
          /\ fs' = [f \in DOMAIN fs \ (matched \ failed) |-> fs[f]]
          /\ main' = [main EXCEPT ![p] =
                 [m EXCEPT !.cleaned = Append(@, prefix),
                           !.warnings = @ \cup failed,
                           !.pc = next]]

\* line 221
CleanupBfc(p) ==
    /\ main[p].pc = "cleanup_bfc"
    /\ cleanup_temp_files(p, main[p].bfc_prefix, "cleanup_intnorm")
    /\ UNCHANGED dirs

\* line 222
CleanupIntnorm(p) ==
    /\ main[p].pc = "cleanup_intnorm"
    /\ cleanup_temp_files(p, main[p].intnorm_prefix, "report")
    /\ UNCHANGED dirs

\* line 224-226, and the return of main(): status 0
Report(p) ==
    /\ main[p].pc = "report"
    /\ main' = [main EXCEPT ![p] =
           [main[p] EXCEPT !.reported = main[p].out_name, !.pc = "done", !.exit = 0]]
    /\ UNCHANGED <<fs, dirs>>

(***************************************************************************)
(* Inputs.                                                                 *)
(***************************************************************************)
D_A_NIIGZ == <<"/", "d", "/", "a">> \o NIIGZ
D_A_ORIG == <<"/", "d", "/", "a">> \o ORIG
A_NII == <<"a">> \o NII
D_A == <<"/", "d", "/", "a">>
D1_A_NII == <<"/", "d", "[", "1", "]", "/", "a">> \o NII
D_U_NIIGZ == <<"/", "d", "/", "u">> \o NIIGZ
D_U_ORIG == <<"/", "d", "/", "u">> \o ORIG
D_V_NIIGZ == <<"/", "d", "/", "v">> \o NIIGZ
O == <<"/", "o">>

Inv2Paths == {D_A_NIIGZ, D_A_ORIG, A_NII, D_A, D1_A_NII}
UniPaths == {D_U_NIIGZ, D_U_ORIG}
ReBiasFlags == { <<"0">>, <<" ", "0">>, <<"1">> }
Outputs == {None, O}
Folders == { <<"/", "d">>, <<"/", "w">>, <<"/", "d", "[", "1", "]">>, O }

Args == [inv2 : Inv2Paths, uni : UniPaths, re_bias : ReBiasFlags,
         output : Outputs, overwrite : BOOLEAN]

\* line 144-154: main() after parse_arguments
Start(args) ==
    [pc |-> "start", exit |-> -1, args |-> args,
     overwrite_flag |-> OverwriteFlag(args.overwrite),
     inv2_image |-> args.inv2, uni_image |-> args.uni,
     re_bias_flag |-> Strip(args.re_bias),
     output_folder |-> None, inv2_basename |-> None, file_ext |-> None,
     uni_basename |-> None, re_bias |-> FALSE, bfc_prefix |-> None,
     out_name |-> None, int_max |-> None, int_min |-> None,
     intnorm_prefix |-> None, expr |-> None, reported |-> None,
     cmds |-> <<>>, written |-> {}, cleaned |-> <<>>, warnings |-> {}]

\* the input datasets exist: the INV2 images hold inv2, the UNI images UniImage
InputFiles(a, inv2) ==
    LET files == UNION {DatasetFiles(a[p].inv2) \cup DatasetFiles(a[p].uni) : p \in DOMAIN a}
    IN  [f \in files |->
           IF \E p \in DOMAIN a : f \in DatasetFiles(a[p].inv2) THEN inv2 ELSE UniImage]

\* what a resolved output folder can be: an input's directory is a writable
\* or read-only directory; the folder given with -o is absent, a writable
\* directory or a regular file
OutputKinds(f) == IF f = O THEN {"absent", "dir_rw", "file_rw"} ELSE {"dir_rw", "dir_ro"}

\* the directories: the output folders of the runs are of any kind they can
\* be; the other input directories are writable, and the folder of -o is
\* absent when no run names it
InitDirs(a) ==
    LET used == {OutputFolder(a[p].output, a[p].inv2) : p \in DOMAIN a}
    IN  { [f \in Folders |-> IF f \in used THEN k[f]
                             ELSE IF f = O THEN "absent" ELSE "dir_rw"] :
            k \in {x \in [used -> {"absent", "dir_rw", "dir_ro", "file_rw"}] :
                     \A f \in used : x[f] \in OutputKinds(f)} }

\* one run
Init ==
    \E a \in [{1} -> Args], inv2 \in Inv2Images :
        /\ main = [p \in {1} |-> Start(a[p])]
        /\ fs = InputFiles(a, inv2)
        /\ dirs \in InitDirs(a)

Next ==
    \/ \E p \in DOMAIN main : EnsureOutputFolder(p)
    \/ \E p \in DOMAIN main : Resolve(p)
    \/ \E p \in DOMAIN main : BiasStage(p)
    \/ \E p \in DOMAIN main : QueryMax(p)
    \/ \E p \in DOMAIN main : QueryMin(p)
    \/ \E p \in DOMAIN main : Normalize(p)
    \/ \E p \in DOMAIN main : Composite(p)
    \/ \E p \in DOMAIN main : CleanupBfc(p)
    \/ \E p \in DOMAIN main : CleanupIntnorm(p)
    \/ \E p \in DOMAIN main : Report(p)

Spec == Init /\ [][Next]_vars


(***************************************************************************)
(* Two concurrent runs over one file system.  Both reintroduce the bias    *)
(* (3dcopy), read the same INV2 image content and write next to their      *)
(* inputs; each step of a run is one blocking call, and the steps of the   *)
(* two runs interleave freely.                                             *)
(***************************************************************************)
ConcArgs == [inv2 : {D_A_NIIGZ, D_A}, uni : {D_U_NIIGZ, D_V_NIIGZ},
             re_bias : { <<"1">> }, output : {None}, overwrite : BOOLEAN]

ConcImage == [v \in Voxels |-> <<(v - 1) * MaxVal, 1>>]

InitConc ==
    \E a \in [{1, 2} -> ConcArgs] :
        /\ main = [p \in {1, 2} |-> Start(a[p])]
        /\ fs = InputFiles(a, ConcImage)
        /\ dirs \in InitDirs(a)

SpecConc == InitConc /\ [][Next]_vars

(***************************************************************************)
(* get_basename_and_extension alone: a run that is about to resolve its    *)
(* names, its INV2 path drawn from directories, stems, suffixes and        *)
(* trailers.                                                               *)
(***************************************************************************)
ResolveDirs == { <<>>, <<"/", "d", "/">>, <<"/", "d">> \o NII \o <<"/">> }
ResolveStems == { <<"a">>, <<"a", "b">>, <<"a", "+", "b">> }
ResolveSuffixes == { <<>>, NII, NIIGZ, ORIG }
ResolveTrailers == { <<>>, <<".", "b">> }
ResolvePaths ==
    { d \o st \o su \o t :
        d \in ResolveDirs, st \in ResolveStems, su \in ResolveSuffixes, t \in ResolveTrailers }

InitResolve ==
    \E inv2 \in ResolvePaths :
        /\ main = [p \in {1} |->
              [Start([inv2 |-> inv2, uni |-> D_U_ORIG, re_bias |-> <<"0">>,
                      output |-> O, overwrite |-> FALSE])
                 EXCEPT !.output_folder = O, !.pc = "resolve"]]
        /\ fs = <<>>
        /\ dirs = [f \in Folders |-> "dir_rw"]

NextResolve == \E p \in DOMAIN main : Resolve(p)

SpecResolve == InitResolve /\ [][NextResolve]_vars


(***************************************************************************)
(* Properties.                                                             *)
(***************************************************************************)
Procs == DOMAIN main

\* the call sites of run_command in main(), in program order
Sites == <<"bias", "dmaxus", "dminus", "intnorm", "composite">>

\* the files of the six suffix variants of a prefix
SuffixVariants(prefix) == {prefix \o extensions[i] : i \in 1..Len(extensions)}

\* C1: a delegate command that returns non-zero is the last command the
\* process ever runs (no later operation, no retry); the process is exited
\* with a non-zero status in the very state that records the failure;
\* cleanup_temp_files was never called; and every file the earlier commands
\* wrote is still there.
C1_FatalOnFailure ==
    \A p \in Procs :
      LET m == main[p]
      IN  \A i \in 1..Len(m.cmds) :
            m.cmds[i].rc # 0 =>
              /\ i = Len(m.cmds)
              /\ \A j \in 1..(i - 1) : m.cmds[j].site # m.cmds[i].site
              /\ m.pc = "exited"
              /\ m.exit > 0
              /\ m.cleaned = <<>>
              /\ m.reported = None
              /\ m.written \subseteq DOMAIN fs

\* C1 witness: the compositing command failed after the bias-stage and the
\* normalized artifacts were written.
C1_Witness ==
    \E p \in Procs :
      /\ Len(main[p].cmds) = 5
      /\ main[p].cmds[5].rc # 0
      /\ main[p].pc = "exited"
      /\ DatasetFiles(main[p].bfc_prefix) \cup DatasetFiles(main[p].intnorm_prefix)
           \subseteq main[p].written

\* C2 (as claimed): whenever a pipeline stage has been invoked, the resolved
\* output location is a writable directory; and a run that aborted before any
\* stage has a non-zero exit status and wrote nothing.
C2_StagesOnlyInWritableDirectory ==
    \A p \in Procs :
      LET m == main[p]
      IN  /\ m.cmds # <<>> => DirKind(m.output_folder) = "dir_rw"
          /\ (m.pc = "exited" /\ m.cmds = <<>>) => (m.exit > 0 /\ m.written = {})

\* C3 (as claimed, for the runs in which no removal failed): after a run that
\* ended successfully no suffix variant of bfc_prefix or intnorm_prefix
\* exists, and the final output still exists.
C3_NoIntermediateAfterSuccess ==
    \A p \in Procs :
      LET m == main[p]
      IN  (m.pc = "done" /\ m.exit = 0 /\ m.warnings = {}) =>
            /\ SuffixVariants(m.bfc_prefix) \cap DOMAIN fs = {}
            /\ SuffixVariants(m.intnorm_prefix) \cap DOMAIN fs = {}
            /\ DatasetFiles(m.out_name) \subseteq DOMAIN fs

\* C4: once the bias stage ran, the bias-mode flag alone decides it: the
\* stripped flag "0" means 3dUnifize ran and the final name is
\* <uni basename>_unbiased_clean<INV2 extension>, any other flag means 3dcopy
\* ran and the name is <uni basename>_rebiased_clean<INV2 extension>; the
\* bias stage ran once; and the two names differ.
C4_OutputNameByBiasMode ==
    \A p \in Procs :
      LET m == main[p]
          off == Strip(m.args.re_bias) = <<"0">>
          unbiased == os_path_join(m.output_folder, m.uni_basename \o UNBIASED_CLEAN \o m.file_ext)
          rebiased == os_path_join(m.output_folder, m.uni_basename \o REBIASED_CLEAN \o m.file_ext)
      IN  m.cmds # <<>> =>
            /\ m.cmds[1].site = "bias"
            /\ \A i \in 2..Len(m.cmds) : m.cmds[i].site # "bias"
            /\ m.cmds[1].argv[1] = (IF off THEN L("3dUnifize") ELSE L("3dcopy"))
            /\ m.cmds[1].rc = 0 => m.out_name = (IF off THEN unbiased ELSE rebiased)
            /\ m.reported # None => m.reported = (IF off THEN unbiased ELSE rebiased)
            /\ unbiased # rebiased

\* C4 witness: a finished run whose flag " 0" strips to "0" and whose final
\* name carries _unbiased_clean and the INV2 extension.
C4_Witness ==
    \E p \in Procs :
      /\ main[p].pc = "done"
      /\ main[p].args.re_bias = <<" ", "0">>
      /\ main[p].args.inv2 = D_A_NIIGZ
      /\ EndsWith(main[p].reported, UNBIASED_CLEAN \o NIIGZ)

\* C5 (as claimed, its guarantee): once the normalization has run with
\* max > min substituted, every voxel of the normalized artifact lies in
\* [0,1].
C5_NormalizedWithinUnitInterval ==
    \A p \in Procs :
      LET m == main[p]
      IN  (/\ m.pc = "composite"
           /\ DatasetExists(m.intnorm_prefix)
           /\ ToInt(m.int_max) > ToInt(m.int_min)) =>
            LET n == ReadImage(m.intnorm_prefix)
            IN  \A v \in Voxels : 0 <= n[v][1] /\ n[v][1] <= n[v][2]

\* C6 (as claimed): every file a run wrote lies directly in the resolved
\* output directory.
C6_ArtifactsInOutputFolder ==
    \A p \in Procs :
      \A f \in main[p].written : os_path_dirname(f) = RStripSlash(main[p].output_folder)

\* C8 (as claimed): a delegate command that writes an artifact carries
\* -overwrite exactly when the --overwrite switch was given.
C8_OverwriteInEveryWritingCommand ==
    \A p \in Procs :
      LET m == main[p]
      IN  \A i \in 1..Len(m.cmds) :
            CmdOutput(m.cmds[i].argv) # None =>
              (HasOpt(m.cmds[i].argv, "-overwrite") <=> m.args.overwrite)

\* C9: the commands run are a prefix of bias, max query, min query,
\* normalization, compositing, each once and each after the previous one
\* returned zero and after the output folder was validated; the
\* normalization reads the dataset the bias stage wrote; the compositor
\* reads the UNI input and the dataset the normalization wrote; cleanup is
\* called only after the compositor returned zero, first for the bias-stage
\* prefix and then for the normalized prefix; and the final path is reported
\* only after both cleanups.
C9_StagesInOrder ==
    \A p \in Procs :
      LET m == main[p]
          n == Len(m.cmds)
      IN  /\ n <= Len(Sites)
          /\ \A i \in 1..n : m.cmds[i].site = Sites[i]
          /\ \A i \in 1..(n - 1) : m.cmds[i].rc = 0
          /\ n > 0 => (m.output_folder # None /\ m.inv2_basename # None)
          /\ n >= 4 => ArgAfter(m.cmds[4].argv, "-a") = CmdOutput(m.cmds[1].argv)
          /\ n >= 5 => /\ ArgAfter(m.cmds[5].argv, "-a") = m.args.uni
                       /\ ArgAfter(m.cmds[5].argv, "-b") = CmdOutput(m.cmds[4].argv)
          /\ m.cleaned # <<>> =>
               /\ n = 5 /\ m.cmds[5].rc = 0
               /\ m.cleaned[1] = CmdOutput(m.cmds[1].argv)
               /\ Len(m.cleaned) <= 2
               /\ Len(m.cleaned) = 2 => m.cleaned[2] = CmdOutput(m.cmds[4].argv)
          /\ m.pc = "cleanup_intnorm" => Len(m.cleaned) = 1
          /\ m.reported # None =>
               /\ Len(m.cleaned) = 2
               /\ m.reported = CmdOutput(m.cmds[5].argv)
               /\ m.exit = 0

\* C9 witness: a run that went through every stage and reported its output.
C9_Witness ==
    \E p \in Procs :
      /\ main[p].pc = "done"
      /\ Len(main[p].cmds) = 5
      /\ Len(main[p].cleaned) = 2
      /\ main[p].reported = main[p].out_name


\* the file names a run writes, reads as an intermediate or tries to delete
Touched(m) ==
    UNION { DatasetFiles(x) \cup SuffixVariants(x) :
              x \in {m.bfc_prefix, m.intnorm_prefix} \ {None} }
      \cup (IF m.out_name = None THEN {} ELSE DatasetFiles(m.out_name))

C10_ResolveRules ==
    \A p \in Procs :
      LET m == main[p]
          f == m.args.inv2
          name == os_path_basename(f)
      IN  m.inv2_basename # None =>
            /\ Contains(f, NIIGZ) => m.file_ext = NIIGZ
            /\ (~Contains(f, NIIGZ) /\ Contains(f, NII)) => m.file_ext = NII
            /\ (~Contains(f, NII) /\ Contains(f, <<"+">>)) => m.file_ext = ORIG
            /\ (~Contains(f, NII) /\ ~Contains(f, <<"+">>)) =>
                 (m.file_ext = <<>> /\ m.inv2_basename = name)
            /\ m.file_ext \in {NIIGZ, NII} => m.inv2_basename \o m.file_ext = name

=============================================================================
